---- MODULE Spec2Model ----
(***************************************************************************)
(* Model of src/minesweeper.py: the Minesweeper board, the Sentence       *)
(* statements and the MinesweeperAI knowledge base with its inference     *)
(* (add_knowledge) and its two move queries.                               *)
(***************************************************************************)
EXTENDS Integers, FiniteSets, Sequences, TLC

\* Board dimensions (constructor arguments height, width) and the largest
\* number of mines the board is constructed with, for the games of Spec.
Height == 2
Width == 3
MaxMines == 3

\* The largest number of cells the driver probes in one game.
MaxMoves == 3

\* Board dimensions and largest number of mines for the games of WideSpec.
WideHeight == 3
WideWidth == 4
WideMines == 2

\* The largest number of cells the driver probes in one game of StepSpec.
StepMoves == 3

\* For DeriveSpec: the largest sentence handed to create_simplest_sentence
\* and the largest number of cells in mines and in safes.
MaxSentenceCells == 4
MaxKnown == 1

None == <<>>

VARIABLES
    height,       \* Minesweeper.height, MinesweeperAI.height
    width,        \* Minesweeper.width, MinesweeperAI.width
    board,        \* Minesweeper.mines: the cells that really hold a mine
    moves_made,   \* MinesweeperAI.moves_made
    mines,        \* MinesweeperAI.mines
    safes,        \* MinesweeperAI.safes
    knowledge,    \* MinesweeperAI.knowledge: sequence of sentences
    op,           \* the operation that ran last
    ret,          \* what the last move query returned (None when nothing)
    last          \* arguments and intermediate values of the last call

vars == <<height, width, board, moves_made, mines, safes, knowledge, op, ret,
          last>>

\* The cells of the board: range(height) x range(width).
Cells == {<<i, j>> : i \in 0..(height - 1), j \in 0..(width - 1)}

----------------------------------------------------------------------------
\* Minesweeper (the board)

is_mine(b, cell) == cell \in b

\* nearby_mines: loops over the 3x3 block around the cell, skips the cell
\* itself, and counts in-bounds mines.
nearby_mines(b, cell) ==
    Cardinality({n \in {<<i, j>> : i \in (cell[1] - 1)..(cell[1] + 1),
                                   j \in (cell[2] - 1)..(cell[2] + 1)} :
                    /\ n # cell
                    /\ 0 <= n[1] /\ n[1] < height
                    /\ 0 <= n[2] /\ n[2] < width
                    /\ n \in b})

----------------------------------------------------------------------------
\* Sentence

Sentence(cells, count) == [cells |-> cells, count |-> count]

\* Variant: every sentence with a positive count gives up its cells as mines.
known_mines_positive(s) ==
    IF s.count > 0 THEN s.cells ELSE {}

known_mines(s) ==
    IF Cardinality(s.cells) = s.count /\ s.count > 0 THEN s.cells ELSE {}

known_safes(s) ==
    IF s.count = 0 THEN s.cells ELSE {}

\* Variant: the count is left alone when a mine is removed.
Sentence_mark_mine_keeps_count(s, cell) ==
    IF cell \in s.cells
    THEN [cells |-> s.cells \ {cell}, count |-> s.count]
    ELSE s

\* Variant: the count is decremented whether or not the cell is present.
Sentence_mark_mine_always_decrements(s, cell) ==
    [cells |-> s.cells \ {cell}, count |-> s.count - 1]

Sentence_mark_mine(s, cell) ==
    IF cell \in s.cells
    THEN [cells |-> s.cells \ {cell}, count |-> s.count - 1]
    ELSE s

\* Variant: removing a safe cell also takes one off the count.
Sentence_mark_safe_decrements(s, cell) ==
    IF cell \in s.cells
    THEN [cells |-> s.cells \ {cell}, count |-> s.count - 1]
    ELSE s

Sentence_mark_safe(s, cell) ==
    IF cell \in s.cells
    THEN [cells |-> s.cells \ {cell}, count |-> s.count]
    ELSE s

----------------------------------------------------------------------------
\* MinesweeperAI; the engine state is the record
\* [moves_made, mines, safes, knowledge].

mark_mine(ai, cell) ==
    [ai EXCEPT !.mines = @ \cup {cell},
               !.knowledge = [i \in 1..Len(@) |-> Sentence_mark_mine(@[i], cell)]]

\* Variant: the cell is added to safes but the sentences are not updated.
mark_safe_set_only(ai, cell) ==
    [ai EXCEPT !.safes = @ \cup {cell}]

mark_safe(ai, cell) ==
    [ai EXCEPT !.safes = @ \cup {cell},
               !.knowledge = [i \in 1..Len(@) |-> Sentence_mark_safe(@[i], cell)]]

\* "for cell in <set>.copy(): self.mark_mine(cell)"
RECURSIVE mark_mine_each(_, _)
mark_mine_each(ai, cells) ==
    IF cells = {} THEN ai
    ELSE LET c == CHOOSE x \in cells : TRUE
         IN mark_mine_each(mark_mine(ai, c), cells \ {c})

\* "for cell in <set>.copy(): self.mark_safe(cell)"
RECURSIVE mark_safe_each(_, _)
mark_safe_each(ai, cells) ==
    IF cells = {} THEN ai
    ELSE LET c == CHOOSE x \in cells : TRUE
         IN mark_safe_each(mark_safe(ai, c), cells \ {c})

\* Variant: only the known safes of a sentence are marked.
update_sentence_safes_only(ai, i) ==
    mark_safe_each(ai, known_safes(ai.knowledge[i]))

\* Variant: only the known mines of a sentence are marked.
update_sentence_mines_only(ai, i) ==
    mark_mine_each(ai, known_mines(ai.knowledge[i]))

\* The body of update_known_cells' loop for the sentence at position i.
update_sentence(ai, i) ==
    LET ai1 == mark_mine_each(ai, known_mines(ai.knowledge[i]))
    IN mark_safe_each(ai1, known_safes(ai1.knowledge[i]))

RECURSIVE update_from(_, _)
update_from(ai, i) ==
    IF i > Len(ai.knowledge) THEN ai
    ELSE update_from(update_sentence(ai, i), i + 1)

\* Variant: sentences left without cells are dropped after the sweep.
update_known_cells_pruning(ai) ==
    [update_from(ai, 1) EXCEPT
        !.knowledge = SelectSeq(@, LAMBDA s : s.cells # {})]

update_known_cells(ai) == update_from(ai, 1)

\* Variant: known-safe cells are subtracted from the count, known mines
\* are not.
create_simplest_cell_subset_safes(ai, cells, count) ==
    Sentence({n \in cells : ~(n \in ai.mines \/ n \in ai.safes)},
             count - Cardinality({n \in cells : n \in ai.safes}))

\* Variant: known mines and known safes are both subtracted from the count.
create_simplest_cell_subset_both(ai, cells, count) ==
    Sentence({n \in cells : ~(n \in ai.mines \/ n \in ai.safes)},
             count - Cardinality({n \in cells : n \in ai.mines \/ n \in ai.safes}))

create_simplest_cell_subset(ai, cells, count) ==
    Sentence({n \in cells : ~(n \in ai.mines \/ n \in ai.safes)},
             count - Cardinality({n \in cells : n \in ai.mines}))

\* Variant: the count of the smaller sentence is not subtracted.
create_simplest_sentence_keeps_count(ai, sentence, other_sentence) ==
    create_simplest_cell_subset(ai, other_sentence.cells \ sentence.cells,
                                other_sentence.count)

create_simplest_sentence(ai, sentence, other_sentence) ==
    create_simplest_cell_subset(ai, other_sentence.cells \ sentence.cells,
                                other_sentence.count - sentence.count)

\* Variant: the list of candidates lacks the lower right neighbour.
get_neighbour_cells_seven(cell) ==
    LET x == cell[1]
        y == cell[2]
        neighbour_cells ==
            {<<x - 1, y - 1>>, <<x - 1, y>>, <<x - 1, y + 1>>,
             <<x, y - 1>>, <<x, y + 1>>,
             <<x + 1, y - 1>>, <<x + 1, y>>}
    IN {n \in neighbour_cells :
            0 <= n[1] /\ n[1] < height /\ 0 <= n[2] /\ n[2] < width}

get_neighbour_cells(cell) ==
    LET x == cell[1]
        y == cell[2]
        neighbour_cells ==
            {<<x - 1, y - 1>>, <<x - 1, y>>, <<x - 1, y + 1>>,
             <<x, y - 1>>, <<x, y + 1>>,
             <<x + 1, y - 1>>, <<x + 1, y>>, <<x + 1, y + 1>>}
    IN {n \in neighbour_cells :
            0 <= n[1] /\ n[1] < height /\ 0 <= n[2] /\ n[2] < width}

\* "new_sentence not in self.knowledge"
InKnowledge(k, s) == \E i \in 1..Len(k) : k[i] = s

\* Variant: the derived sentence is appended without the membership test.
infer_pair_always_appends(ai, pre, i, j) ==
    IF pre[i] # pre[j] /\ pre[i].cells \subseteq pre[j].cells
    THEN [ai EXCEPT !.knowledge =
                Append(@, create_simplest_sentence(ai, pre[i], pre[j]))]
    ELSE ai

\* The body of the two nested loops of add_knowledge for the pair
\* (pre[i], pre[j]) of pre_existing_knowledge.
infer_pair(ai, pre, i, j) ==
    IF pre[i] # pre[j] /\ pre[i].cells \subseteq pre[j].cells
    THEN LET new_sentence == create_simplest_sentence(ai, pre[i], pre[j])
         IN IF ~InKnowledge(ai.knowledge, new_sentence)
            THEN [ai EXCEPT !.knowledge = Append(@, new_sentence)]
            ELSE ai
    ELSE ai

RECURSIVE infer_from(_, _, _, _)
infer_from(ai, pre, i, j) ==
    IF i > Len(pre) THEN ai
    ELSE IF j > Len(pre) THEN infer_from(ai, pre, i + 1, 1)
    ELSE infer_from(infer_pair(ai, pre, i, j), pre, i, j + 1)

\* Variant: a sentence is only compared with the sentences after it.
RECURSIVE infer_from_later(_, _, _, _)
infer_from_later(ai, pre, i, j) ==
    IF i > Len(pre) THEN ai
    ELSE IF j > Len(pre) THEN infer_from_later(ai, pre, i + 1, i + 2)
    ELSE infer_from_later(infer_pair(ai, pre, i, j), pre, i, j + 1)

infer_new_sentences_later(ai) == infer_from_later(ai, ai.knowledge, 1, 2)

\* Lines 256-264: the inference over pre_existing_knowledge.
infer_new_sentences(ai) == infer_from(ai, ai.knowledge, 1, 1)

\* Variant: the probed cell is recorded as a move but not marked safe.
record_move_unmarked(ai, cell) ==
    [ai EXCEPT !.moves_made = @ \cup {cell}]

\* Lines 245-246.
record_move(ai, cell) ==
    mark_safe([ai EXCEPT !.moves_made = @ \cup {cell}], cell)

\* Variant: the neighbours and the count are taken as they come.
clue_sentence_raw(ai, cell, count) ==
    Sentence(get_neighbour_cells(cell), count)

\* Lines 248-250.
clue_sentence(ai, cell, count) ==
    create_simplest_cell_subset(ai, get_neighbour_cells(cell), count)

\* Line 251.
append_clue(ai, cell, count) ==
    [ai EXCEPT !.knowledge = Append(@, clue_sentence(ai, cell, count))]

add_knowledge(ai, cell, count) ==
    update_known_cells(
        infer_new_sentences(
            update_known_cells(
                append_clue(record_move(ai, cell), cell, count))))

\* make_safe_move: row-major scan, first hit is returned.
RECURSIVE safe_scan(_, _, _)
safe_scan(ai, i, j) ==
    IF i >= height THEN None
    ELSE IF j >= width THEN safe_scan(ai, i + 1, 0)
    ELSE IF <<i, j>> \in ai.safes /\ <<i, j>> \notin ai.moves_made THEN <<i, j>>
    ELSE safe_scan(ai, i, j + 1)

\* Variant: the scan runs column by column.
RECURSIVE safe_scan_columns(_, _, _)
safe_scan_columns(ai, i, j) ==
    IF j >= width THEN None
    ELSE IF i >= height THEN safe_scan_columns(ai, 0, j + 1)
    ELSE IF <<i, j>> \in ai.safes /\ <<i, j>> \notin ai.moves_made THEN <<i, j>>
    ELSE safe_scan_columns(ai, i + 1, j)

make_safe_move_columns(ai) == safe_scan_columns(ai, 0, 0)

make_safe_move(ai) == safe_scan(ai, 0, 0)

\* make_random_move: possible_cells; random.choice picks any of them.
\* Variant: known mines are not filtered out.
possible_cells_with_mines(ai) ==
    {c \in Cells : c \notin ai.moves_made}

possible_cells(ai) ==
    {c \in Cells : c \notin ai.mines /\ c \notin ai.moves_made}

----------------------------------------------------------------------------
\* The state machine

AI == [moves_made |-> moves_made, mines |-> mines, safes |-> safes,
       knowledge |-> knowledge]

NoCall == [called |-> FALSE]

Init ==
    /\ height = Height
    /\ width = Width
    /\ board \in {b \in SUBSET Cells : Cardinality(b) <= MaxMines}
    /\ moves_made = {}
    /\ mines = {}
    /\ safes = {}
    /\ knowledge = <<>>
    /\ op = "init"
    /\ ret = None
    /\ last = NoCall

\* The driver probes a cell that holds no mine and was not probed before and
\* hands the board's count to add_knowledge.
AddKnowledge ==
    \E cell \in Cells :
        /\ Cardinality(moves_made) < MaxMoves
        /\ cell \notin moves_made
        /\ ~is_mine(board, cell)
        /\ \E count \in {nearby_mines(board, cell)} :
           \E a1 \in {record_move(AI, cell)} :
           \E a2 \in {append_clue(a1, cell, count)} :
           \E a3 \in {update_known_cells(a2)} :
           \E a4 \in {infer_new_sentences(a3)} :
           \E a5 \in {update_known_cells(a4)} :
              /\ moves_made' = a5.moves_made
              /\ mines' = a5.mines
              /\ safes' = a5.safes
              /\ knowledge' = a5.knowledge
              /\ last' = [called |-> TRUE, cell |-> cell, count |-> count,
                          prior |-> knowledge,
                          before |-> a1.knowledge,
                          appended |-> a2.knowledge,
                          known |-> a3.mines \cup a3.safes,
                          clue |-> clue_sentence(a1, cell, count),
                          pre |-> a3.knowledge,
                          inferred |-> a4.knowledge]
        /\ op' = "add_knowledge"
        /\ ret' = None
        /\ UNCHANGED <<height, width, board>>

\* Variant: the returned cell is recorded as a move by the query itself.
MakeSafeMove_records ==
    /\ op' = "make_safe_move"
    /\ ret' = make_safe_move(AI)
    /\ moves_made' = IF make_safe_move(AI) = None THEN moves_made
                     ELSE moves_made \cup {make_safe_move(AI)}
    /\ UNCHANGED <<height, width, board, mines, safes, knowledge, last>>

MakeSafeMove ==
    /\ op' = "make_safe_move"
    /\ ret' = make_safe_move(AI)
    /\ UNCHANGED <<height, width, board, moves_made, mines, safes, knowledge, last>>

MakeRandomMove ==
    /\ op' = "make_random_move"
    /\ IF possible_cells(AI) # {}
       THEN ret' \in possible_cells(AI)
       ELSE ret' = None
    /\ UNCHANGED <<height, width, board, moves_made, mines, safes, knowledge, last>>

Next == AddKnowledge \/ MakeSafeMove \/ MakeRandomMove

Spec == Init /\ [][Next]_vars

\* The driver calls the engine's mark_mine directly on any cell, and may
\* repeat the call on the same cell.
MarkMine ==
    \E cell \in Cells :
        /\ \/ op \in {"init", "add_knowledge"}
           \/ (op = "mark_mine" /\ last.marked = cell)
        /\ \E a \in {mark_mine(AI, cell)} :
              /\ mines' = a.mines
              /\ safes' = a.safes
              /\ knowledge' = a.knowledge
        /\ op' = "mark_mine"
        /\ last' = [called |-> FALSE, marked |-> cell]
        /\ UNCHANGED <<height, width, board, moves_made, ret>>

\* The driver calls the engine's mark_safe directly on any cell, and may
\* repeat the call on the same cell.
MarkSafe ==
    \E cell \in Cells :
        /\ \/ op \in {"init", "add_knowledge"}
           \/ (op = "mark_safe" /\ last.marked = cell)
        /\ \E a \in {mark_safe(AI, cell)} :
              /\ mines' = a.mines
              /\ safes' = a.safes
              /\ knowledge' = a.knowledge
        /\ op' = "mark_safe"
        /\ last' = [called |-> FALSE, marked |-> cell]
        /\ UNCHANGED <<height, width, board, moves_made, ret>>

\* Games in which clues are recorded and then cells are marked by hand.
MarkNext ==
    \/ (op \in {"init", "add_knowledge"} /\ AddKnowledge)
    \/ MarkMine
    \/ MarkSafe

MarkSpec == Init /\ [][MarkNext]_vars

----------------------------------------------------------------------------
\* add_knowledge taken one loop iteration at a time. op is the position in
\* the handler: "update_1" (line 252), "infer" (lines 256-264), "update_2"
\* (line 265) and "add_knowledge" once it has returned; last holds the loop
\* indices and pre_existing_knowledge.

Running == {"update_1", "infer", "update_2"}

\* Variant: at the end of the inner loop the outer loop stays where it is.
advance_inner_only(i, j, n) ==
    IF j >= n THEN <<i, 1>> ELSE <<i, j + 1>>

\* The indices the two nested for loops visit after (i, j), over n sentences.
advance(i, j, n) ==
    IF j >= n THEN <<i + 1, 1>> ELSE <<i, j + 1>>

\* Lines 245-251: the call starts; the clue sentence is appended.
StepStart ==
    \E cell \in Cells :
        /\ op \in {"init", "add_knowledge"}
        /\ Cardinality(moves_made) < StepMoves
        /\ cell \notin moves_made
        /\ ~is_mine(board, cell)
        /\ \E count \in {nearby_mines(board, cell)} :
           \E a \in {append_clue(record_move(AI, cell), cell, count)} :
              /\ moves_made' = a.moves_made
              /\ mines' = a.mines
              /\ safes' = a.safes
              /\ knowledge' = a.knowledge
              /\ last' = [called |-> TRUE, cell |-> cell, count |-> count,
                          start |-> AI, i |-> 1, j |-> 1, pre |-> <<>>]
        /\ op' = "update_1"
        /\ ret' = None
        /\ UNCHANGED <<height, width, board>>

\* One iteration of update_known_cells' loop over self.knowledge.
StepUpdate ==
    /\ op \in {"update_1", "update_2"}
    /\ last.i <= Len(knowledge)
    /\ \E a \in {update_sentence(AI, last.i)} :
          /\ mines' = a.mines
          /\ safes' = a.safes
          /\ knowledge' = a.knowledge
    /\ last' = [last EXCEPT !.i = @ + 1]
    /\ UNCHANGED <<height, width, board, moves_made, op, ret>>

\* update_known_cells' loop is exhausted: the first time the handler copies
\* knowledge and enters the inference loops, the second time it returns.
StepUpdateDone ==
    /\ op \in {"update_1", "update_2"}
    /\ last.i > Len(knowledge)
    /\ IF op = "update_1"
       THEN /\ op' = "infer"
            /\ last' = [last EXCEPT !.i = 1, !.j = 1, !.pre = knowledge]
       ELSE /\ op' = "add_knowledge"
            /\ last' = last
    /\ UNCHANGED <<height, width, board, moves_made, mines, safes, knowledge,
                   ret>>

\* One iteration of the inner loop of lines 257-264.
StepInfer ==
    /\ op = "infer"
    /\ last.i <= Len(last.pre)
    /\ \E a \in {infer_pair(AI, last.pre, last.i, last.j)} :
          knowledge' = a.knowledge
    /\ \E ij \in {advance(last.i, last.j, Len(last.pre))} :
          last' = [last EXCEPT !.i = ij[1], !.j = ij[2]]
    /\ UNCHANGED <<height, width, board, moves_made, mines, safes, op, ret>>

\* The outer loop is exhausted: the handler goes on to line 265.
StepInferDone ==
    /\ op = "infer"
    /\ last.i > Len(last.pre)
    /\ op' = "update_2"
    /\ last' = [last EXCEPT !.i = 1, !.j = 1]
    /\ UNCHANGED <<height, width, board, moves_made, mines, safes, knowledge,
                   ret>>

\* The steps of a call that is under way.
StepRun == StepUpdate \/ StepUpdateDone \/ StepInfer \/ StepInferDone

StepNext == StepStart \/ StepRun

\* The handler is synchronous and runs to completion: once called, it keeps
\* taking steps.
StepSpec == Init /\ [][StepNext]_vars /\ WF_vars(StepRun)

----------------------------------------------------------------------------
\* create_simplest_sentence called on its own: an engine that knows some
\* mines and safes is handed two sentences, the first inside the second.

DeriveInit ==
    /\ height = Height
    /\ width = Width
    /\ board = {}
    /\ moves_made = {}
    /\ mines \in {m \in SUBSET Cells : Cardinality(m) <= MaxKnown}
    /\ safes \in {x \in SUBSET (Cells \ mines) : Cardinality(x) <= MaxKnown}
    /\ knowledge = <<>>
    /\ op = "init"
    /\ ret = None
    /\ \E other \in {x \in SUBSET Cells : Cardinality(x) <= MaxSentenceCells} :
       \E cells \in SUBSET other :
       \E count \in 0..Cardinality(cells) :
       \E other_count \in count..Cardinality(other) :
          last = [called |-> FALSE,
                  sentence |-> Sentence(cells, count),
                  other_sentence |-> Sentence(other, other_count)]

CreateSimplestSentence ==
    /\ op = "init"
    /\ op' = "create_simplest_sentence"
    /\ ret' = create_simplest_sentence(AI, last.sentence, last.other_sentence)
    /\ UNCHANGED <<height, width, board, moves_made, mines, safes, knowledge,
                   last>>

DeriveNext == CreateSimplestSentence

DeriveSpec == DeriveInit /\ [][DeriveNext]_vars

\* Games on the wider board, in which the driver records clues and asks
\* for safe moves only.
WideInit ==
    /\ height = WideHeight
    /\ width = WideWidth
    /\ board \in {b \in SUBSET Cells : Cardinality(b) <= WideMines}
    /\ moves_made = {}
    /\ mines = {}
    /\ safes = {}
    /\ knowledge = <<>>
    /\ op = "init"
    /\ ret = None
    /\ last = NoCall

WideNext == AddKnowledge \/ MakeSafeMove

WideSpec == WideInit /\ [][WideNext]_vars

----------------------------------------------------------------------------
\* Properties

\* C1: soundness of derived facts. Every cell in safes holds no mine on the
\* real board and every cell in mines holds one.
C1_Soundness ==
    /\ \A c \in safes : ~is_mine(board, c)
    /\ \A c \in mines : is_mine(board, c)

\* A state where inference (not the probe itself) has proven a mine and a
\* safe cell.
C1_Witness ==
    /\ op = "add_knowledge"
    /\ mines # {}
    /\ safes \ moves_made # {}

\* C2: disjointness. mines and safes have no cell in common.
C2_Disjoint == mines \cap safes = {}

\* Both sets are populated after a clue.
C2_Witness ==
    /\ op = "add_knowledge"
    /\ Cardinality(mines) >= 2
    /\ Cardinality(safes) >= 2

\* C3: sentence invariant. Every sentence of knowledge has
\* 0 <= count <= |cells|.
C3_SentenceInvariant ==
    \A i \in 1..Len(knowledge) :
        /\ 0 <= knowledge[i].count
        /\ knowledge[i].count <= Cardinality(knowledge[i].cells)

\* knowledge holds a clue sentence that marking has shrunk (both a mine and
\* a safe cell were removed from it), a derived sentence, and a sentence
\* that still leaves cells undetermined.
C3_Witness ==
    /\ op = "add_knowledge"
    /\ Len(last.inferred) > Len(last.pre)
    /\ \E i \in 1..Len(knowledge) :
          /\ knowledge[i].count > 0
          /\ knowledge[i].count < Cardinality(knowledge[i].cells)
    /\ mines # {}

\* C4: closure to fixpoint of fact extraction. When add_knowledge has
\* returned, no sentence of knowledge has a non-empty cell set with count 0
\* or with count = |cells|.
C4_ExtractionFixpoint ==
    op = "add_knowledge" =>
        \A i \in 1..Len(knowledge) :
            knowledge[i].cells # {} =>
                /\ knowledge[i].count # 0
                /\ knowledge[i].count # Cardinality(knowledge[i].cells)

\* C5: subset closure. For sentences A, B of knowledge with A # B and
\* A.cells a subset of B.cells, after one add_knowledge call the sentence
\* (B.cells - A.cells, B.count - A.count), with the cells now in mines or
\* safes removed and the removed mines subtracted from the count, is in
\* knowledge, or all of its cells have been absorbed into mines/safes.
C5_SubsetClosure ==
    [][op' = "add_knowledge" =>
        \A i, j \in 1..Len(knowledge) :
            (knowledge[i] # knowledge[j]
               /\ knowledge[i].cells \subseteq knowledge[j].cells) =>
                LET diff == knowledge[j].cells \ knowledge[i].cells
                    d == [cells |-> diff \ (mines' \cup safes'),
                          count |-> knowledge[j].count - knowledge[i].count
                                      - Cardinality(diff \cap mines')]
                IN d.cells = {} \/ \E k \in 1..Len(knowledge') : knowledge'[k] = d
    ]_vars

\* Before the last call, knowledge held a non-empty A strictly inside B, and
\* the difference sentence still has undetermined cells after the call.
C5_Witness ==
    /\ op = "add_knowledge"
    /\ \E i, j \in 1..Len(last.prior) :
          LET A == last.prior[i]
              B == last.prior[j]
              diff == B.cells \ A.cells
              d == [cells |-> diff \ (mines \cup safes),
                    count |-> B.count - A.count - Cardinality(diff \cap mines)]
          IN /\ A.cells # {}
             /\ A.cells \subseteq B.cells
             /\ A.cells # B.cells
             /\ d.cells # {}
             /\ \E k \in 1..Len(knowledge) : knowledge[k] = d

\* C6: safe-move selection. make_safe_move returns the row-major-first cell
\* of safes \ moves_made when that set is non-empty, and None exactly when
\* it is empty.
C6_SafeMove ==
    op = "make_safe_move" =>
        LET S == safes \ moves_made
        IN IF S = {}
           THEN ret = None
           ELSE /\ ret \in S
                /\ \A c \in S : \/ ret[1] < c[1]
                                \/ (ret[1] = c[1] /\ ret[2] <= c[2])

\* make_safe_move returned a cell while another unprobed safe cell lies in
\* a lower column of a later row.
C6_Witness ==
    /\ op = "make_safe_move"
    /\ ret # None
    /\ \E c \in safes \ moves_made : c[1] > ret[1] /\ c[2] < ret[2]

\* make_safe_move returned None although clues were recorded.
C6_WitnessNone ==
    /\ op = "make_safe_move"
    /\ ret = None
    /\ moves_made # {}

\* C7: moves_made is a subset of safes in every state.
C7_MovesAreSafe == moves_made \subseteq safes

\* Several probes were recorded and inference has marked cells after them.
C7_Witness ==
    /\ Cardinality(moves_made) >= 2
    /\ mines # {}
    /\ safes \ moves_made # {}

\* C8: make_random_move returns None iff every board cell is in mines or
\* moves_made; otherwise it returns an in-bounds cell in neither set, and
\* every such cell is a possible result.
C8_RandomMove ==
    /\ op = "make_random_move" =>
          /\ (ret = None) <=> (Cells \subseteq (mines \cup moves_made))
          /\ ret # None =>
                (ret \in Cells /\ ret \notin mines /\ ret \notin moves_made)
    /\ \A c \in Cells \ (mines \cup moves_made) :
          ENABLED (MakeRandomMove /\ ret' = c)

\* make_random_move returned a cell of unknown status while a mine and an
\* unprobed safe cell were known.
C8_Witness ==
    /\ op = "make_random_move"
    /\ ret # None
    /\ ret \notin safes
    /\ mines # {}

\* make_random_move returned None on a fully resolved board.
C8_WitnessNone ==
    /\ op = "make_random_move"
    /\ ret = None
    /\ mines # {}

\* C9: the move queries are read-only. A make_safe_move or make_random_move
\* step leaves mines, safes, moves_made and knowledge unchanged.
C9_QueriesReadOnly ==
    [][op' \in {"make_safe_move", "make_random_move"} =>
          UNCHANGED <<mines, safes, moves_made, knowledge>>]_vars

\* A query returned a cell from an engine that holds facts and sentences.
C9_Witness ==
    /\ op \in {"make_safe_move", "make_random_move"}
    /\ ret # None
    /\ mines # {}
    /\ Len(knowledge) >= 2

\* C10 as stated: add_knowledge never appends a sentence equal to one
\* already in knowledge at the moment of insertion, neither the clue
\* sentence nor a sentence derived by subset inference.
C10_NoDuplicateInsertion ==
    op = "add_knowledge" =>
        /\ ~InKnowledge(last.before, last.clue)
        /\ \A k \in (Len(last.pre) + 1)..Len(last.inferred) :
              \A m \in 1..(k - 1) : last.inferred[m] # last.inferred[k]

\* C10 amended: a sentence derived by subset inference is never appended
\* when an equal sentence is in knowledge at the moment of insertion (the
\* clue sentence is appended without such a test).
C10_NoDuplicateDerived ==
    op = "add_knowledge" =>
        \A k \in (Len(last.pre) + 1)..Len(last.inferred) :
            \A m \in 1..(k - 1) : last.inferred[m] # last.inferred[k]

\* The last call derived a sentence with undetermined cells and left it out
\* because an equal sentence was present.
C10_Witness ==
    /\ op = "add_knowledge"
    /\ \E i, j \in 1..Len(last.pre) :
          /\ last.pre[i] # last.pre[j]
          /\ last.pre[i].cells \subseteq last.pre[j].cells
          /\ last.pre[j].cells \ last.pre[i].cells # {}
          /\ InKnowledge(last.pre,
                 [cells |-> last.pre[j].cells \ last.pre[i].cells,
                  count |-> last.pre[j].count - last.pre[i].count])

\* The king-move-adjacent cells of c inside the board.
KingNeighbours(c) ==
    {n \in Cells : /\ n # c
                   /\ n[1] - c[1] \in {-1, 0, 1}
                   /\ n[2] - c[2] \in {-1, 0, 1}}

\* C11: zero-count clue. When add_knowledge(cell, 0) has returned, every
\* in-bounds neighbour of cell is in safes.
C11_ZeroCount ==
    (op = "add_knowledge" /\ last.count = 0) =>
        KingNeighbours(last.cell) \subseteq safes

\* A zero clue was recorded for a cell with a neighbour that was neither
\* probed nor known before the call, on an engine that already held clues.
C11_Witness ==
    /\ op = "add_knowledge"
    /\ last.count = 0
    /\ Len(last.prior) >= 1
    /\ last.clue.cells # {}
    /\ KingNeighbours(last.cell) \subseteq safes

\* C12: full-certainty clue. If the clue count minus the neighbours already
\* in mines equals the number of undetermined neighbours and is positive,
\* all those undetermined neighbours are in mines when add_knowledge returns.
C12_FullCertainty ==
    [][op' = "add_knowledge" =>
        LET cell == last'.cell
            undetermined == KingNeighbours(cell) \ (mines \cup safes \cup {cell})
            adjusted == last'.count - Cardinality(KingNeighbours(cell) \cap mines)
        IN (adjusted = Cardinality(undetermined) /\ adjusted > 0) =>
               undetermined \subseteq mines'
    ]_vars

\* A clue whose adjusted count equals its two or more undetermined
\* neighbours was recorded while a neighbour was already known.
C12_Witness ==
    /\ op = "add_knowledge"
    /\ last.clue.count = Cardinality(last.clue.cells)
    /\ last.clue.count >= 2
    /\ last.clue.cells \subseteq mines
    /\ last.clue.cells # KingNeighbours(last.cell)

C14_MarkIdempotent ==
    /\ [](\A i \in 1..Len(knowledge) : \A c \in Cells :
            /\ Sentence_mark_mine(Sentence_mark_mine(knowledge[i], c), c)
                 = Sentence_mark_mine(knowledge[i], c)
            /\ Sentence_mark_safe(Sentence_mark_safe(knowledge[i], c), c)
                 = Sentence_mark_safe(knowledge[i], c))
    /\ [][(op \in {"mark_mine", "mark_safe"} /\ op' = op
             /\ last'.marked = last.marked) =>
            UNCHANGED <<mines, safes, moves_made, knowledge>>]_vars

\* A cell that a sentence held was marked as a mine, which removed it and
\* lowered the count to 0 while other cells remain, and the engine holds
\* another sentence that the mark did not touch.
C14_Witness ==
    /\ op = "mark_mine"
    /\ last.marked \in mines
    /\ \E i \in 1..Len(knowledge) :
          /\ knowledge[i].count = 0
          /\ knowledge[i].cells # {}
    /\ \E i \in 1..Len(knowledge) : knowledge[i].count >= 1

\* C15: termination. Every add_knowledge call that has started finishes its
\* inference and returns to the driver.
C15_Termination == (op \in Running) ~> (op = "add_knowledge")

\* A call has returned during which the inference loops appended a sentence
\* to knowledge while running over pre_existing_knowledge.
C15_Witness ==
    /\ op = "add_knowledge"
    /\ last.called
    /\ Len(last.pre) >= 2
    /\ Len(knowledge) > Len(last.pre)

\* The call taken step by step returns the engine that add_knowledge
\* computes in one go.
StepAgrees ==
    (op = "add_knowledge" /\ last.called) =>
        AI = add_knowledge(last.start, last.cell, last.count)

\* C16: clue-sentence normal form. The sentence add_knowledge(cell, count)
\* appends has as cells the in-bounds king-move neighbours of cell that are
\* in neither mines nor safes (cell itself counted as safe), and as count
\* the clue count minus the number of neighbours already in mines.
C16_ClueNormalForm ==
    [][op' = "add_knowledge" =>
        LET cell == last'.cell
            K == KingNeighbours(cell)
        IN /\ Len(last'.appended) = Len(knowledge) + 1
           /\ last'.appended[Len(last'.appended)] =
                [cells |-> K \ (mines \cup safes \cup {cell}),
                 count |-> last'.count - Cardinality(K \cap mines)]
    ]_vars

\* The appended clue sentence lost a neighbour known as a mine (the count
\* went down) and a neighbour known as safe (the count did not), and kept
\* undetermined cells.
C16_Witness ==
    /\ op = "add_knowledge"
    /\ last.clue.cells # {}
    /\ last.clue.count < last.count
    /\ Cardinality(KingNeighbours(last.cell) \ last.clue.cells)
          > last.count - last.clue.count

\* C17: derived-sentence normal form. For sentences A and B with A.cells a
\* subset of B.cells, create_simplest_sentence yields the cells
\* (B.cells - A.cells) minus (mines union safes) and the count
\* B.count - A.count - |(B.cells - A.cells) intersect mines|; known safes
\* are taken from the cells only.
C17_DerivedNormalForm ==
    op = "create_simplest_sentence" =>
        LET A == last.sentence
            B == last.other_sentence
            diff == B.cells \ A.cells
        IN /\ ret.cells = diff \ (mines \cup safes)
           /\ ret.count = B.count - A.count - Cardinality(diff \cap mines)

\* The difference of the two sentences held a known mine, a known safe
\* cell and an undetermined cell, and the smaller sentence was not empty.
C17_Witness ==
    /\ op = "create_simplest_sentence"
    /\ last.sentence.cells # {}
    /\ last.sentence.count > 0
    /\ (last.other_sentence.cells \ last.sentence.cells) \cap mines # {}
    /\ (last.other_sentence.cells \ last.sentence.cells) \cap safes # {}
    /\ ret.cells # {}

\* C18: neighbourhood agreement. For every in-bounds cell the engine's
\* neighbour set is exactly the king-move-adjacent cells inside the board,
\* never holds the cell itself, and the board's nearby_mines(cell) is the
\* number of mines among exactly that set.
\* (The board and its dimensions never change, so all cells are compared on
\* the freshly built board, and the probed cell again at every clue.)
C18_Neighbourhood ==
    /\ op = "init" =>
          \A c \in Cells :
              /\ get_neighbour_cells(c) = KingNeighbours(c)
              /\ c \notin get_neighbour_cells(c)
              /\ nearby_mines(board, c)
                   = Cardinality({n \in get_neighbour_cells(c) :
                                     is_mine(board, n)})
    /\ op = "add_knowledge" =>
          /\ get_neighbour_cells(last.cell) = KingNeighbours(last.cell)
          /\ last.count
               = Cardinality({n \in get_neighbour_cells(last.cell) :
                                 is_mine(board, n)})

\* A clue was recorded for an inner cell with eight neighbours, some of
\* them mined, on a board that also has a mine elsewhere.
C18_Witness ==
    /\ op = "add_knowledge"
    /\ Cardinality(KingNeighbours(last.cell)) = 8
    /\ last.count >= 1
    /\ board \ KingNeighbours(last.cell) # {}

\* C19: undetermined cells only. Once add_knowledge has returned, no
\* sentence of knowledge holds a cell that is in mines or in safes; and in
\* the subset inference of the call no difference of two sentences held a
\* known cell, so normalising it removed no cell and changed no count.
C19_UndeterminedOnly ==
    /\ \A i \in 1..Len(knowledge) :
          knowledge[i].cells \cap (mines \cup safes) = {}
    /\ last.called =>
          \A i, j \in 1..Len(last.pre) :
              (last.pre[i] # last.pre[j]
                 /\ last.pre[i].cells \subseteq last.pre[j].cells) =>
                  (last.pre[j].cells \ last.pre[i].cells) \cap last.known = {}

\* The last call knew mines and safes when it derived and appended a
\* sentence with undetermined cells, and it left such a sentence behind.
C19_Witness ==
    /\ op = "add_knowledge"
    /\ mines # {}
    /\ Len(last.inferred) > Len(last.pre)
    /\ last.inferred[Len(last.inferred)].cells # {}
    /\ \E i \in 1..Len(knowledge) : knowledge[i].cells # {}

\* C20: monotonic knowledge. In every step mines, safes and moves_made only
\* grow, knowledge does not get shorter, and the cell set of every sentence
\* already in knowledge only shrinks.
C20_Monotonic ==
    [][/\ mines \subseteq mines'
       /\ safes \subseteq safes'
       /\ moves_made \subseteq moves_made'
       /\ Len(knowledge) <= Len(knowledge')
       /\ \A i \in 1..Len(knowledge) :
             knowledge'[i].cells \subseteq knowledge[i].cells
    ]_vars

\* The last call added a mine and safe cells, appended more than the clue
\* sentence, and shrank a sentence that was there before to a smaller,
\* non-empty one.
C20_Witness ==
    /\ op = "add_knowledge"
    /\ mines # {}
    /\ Len(knowledge) > Len(last.prior) + 1
    /\ \E i \in 1..Len(last.prior) :
          /\ knowledge[i].cells # {}
          /\ knowledge[i].cells # last.prior[i].cells
          /\ knowledge[i].cells \subseteq last.prior[i].cells

====
